---- MODULE Spec2Model ----
(***************************************************************************)
(* ziptransfer: bucket-to-bucket transfer that lists the source bucket,    *)
(* cuts the listing into batches, fetches each batch concurrently under a  *)
(* bounded semaphore (Workers) and hands the opened objects over a         *)
(* one-slot channel to PutObjectsSnowball, one archive per batch.          *)
(*                                                                         *)
(* Goroutines modelled: main (listing loop + the PutObjectsSnowball call), *)
(* the launcher goroutine of writeAsZip, and one fetch job per entry.      *)
(* A step is one channel operation, WaitGroup operation or external call.  *)
(***************************************************************************)
EXTENDS Integers, Sequences, FiniteSets, TLC

\* Longest listing explored (objects plus listing-error items).
MaxList == 4
\* Largest GOMAXPROCS explored.
MaxCap == 2
\* Entries per archive.  The program uses 100; the model uses a small value
\* so that full, partial and empty batches all occur within MaxList.
BatchSize == 3
\* Buffer size of the handoff channel: make(chan minio.SnowballObject, 1).
InputCap == 1

VARIABLES
    capacity,   \* n given to New: runtime.GOMAXPROCS(0)
    listing,    \* what objectsCh delivers: sequence of [key, err]
    next,       \* index of the next item main receives from objectsCh
    entries,    \* main's entries slice (keys)
    final,      \* TRUE when writeAsZip was called from the !ok branch
    mainpc,     \* "list", "sink", "done" (exit 0), "fatal" (log.Fatalln)
    queue,      \* Workers.queue: number of permits in the channel
    wg,         \* Workers.wg counter
    lpc,        \* launcher goroutine: "idle","loop","take","close","exited"
    li,         \* launcher's position in entries
    jpc,        \* fetch job per key: "none","get","send","give","wgdone","done"
    input,      \* handoff channel: [buf: Seq(key), closed: BOOLEAN]
    received,   \* records PutObjectsSnowball has received in this call
    errlog,     \* keys printed by fmt.Println("ERROR: ", err, entry.Key)
    listErrs,   \* number of "ERROR: listing failed" lines printed
    batches,    \* arguments of the writeAsZip calls so far
    sunk,       \* per PutObjectsSnowball call that returned nil: the keys it
                \* received and how many records ([keys, n]; order not kept)
    stdout,     \* counts printed by "Copied %d objects"
    sinkErr,    \* PutObjectsSnowball returned a non-nil error
    env,        \* environment: INMEMORY, COMPRESS, SKIPERRS ("" when unset)
    opts,       \* the SnowballOptions of the last writeAsZip call
    boot        \* start of main: "pending", "ok", "clienterr", "gateerr"

\* State of the local-filesystem variant (disk-uploader/uploader.go).
VARIABLES
    tree,       \* what the walk visits: sequence of "reg", "skip", "fail"
    dwi,        \* the walker's position in tree
    dwpc,       \* walker goroutine: "walk", "send", "closed"
    dchan,      \* the walk channel input: [buf, closed]
    dbpc,       \* batching goroutine: "recv", "upload", "stopped"
    dentries,   \* the batching loop's entries (keys)
    dfinal,     \* TRUE when writeAsZip was called from the !ok branch
    dtotalObjs, \* totalObjs
    dipc,       \* goroutine of disk writeAsZip: "idle", "open", "send", "exited"
    dj,         \* its position in entries
    din,        \* the channel of disk writeAsZip: [buf, closed]
    dreceived,  \* records PutObjectsSnowball has received in this call
    dnoopen,    \* keys for which os.Open failed
    dbatches,   \* arguments of the disk writeAsZip calls so far
    dsunk,      \* per call that returned nil: [keys, n] received
    duploadErr, \* a disk writeAsZip call returned an error
    dmsg,       \* last pb.Describe text: "", "failed", "failed at the end", "finished"
    dmainpc     \* disk main: "wait" (on doneCh), "exit0", "fatal" (log.Fatalf)

\* The variables of the bucket-to-bucket program.
pvars == <<capacity, listing, next, entries, final, mainpc, queue, wg, lpc, li,
           jpc, input, received, errlog, listErrs, batches, sunk, stdout, sinkErr,
           env, opts, boot>>

\* The variables of disk-uploader.
dvars == <<tree, dwi, dwpc, dchan, dbpc, dentries, dfinal, dtotalObjs, dipc, dj,
           din, dreceived, dnoopen, dbatches, dsunk, duploadErr, dmsg, dmainpc>>

vars == <<pvars, dvars>>

Keys == 1..MaxList

\* ---- helpers -----------------------------------------------------------

RECURSIVE SeqSet(_)
SeqSet(s) == IF s = <<>> THEN {} ELSE {Head(s)} \cup SeqSet(Tail(s))

RECURSIVE Flatten(_)
Flatten(ss) == IF ss = <<>> THEN <<>> ELSE Head(ss) \o Flatten(Tail(ss))

\* Keys of the listing items that carry no listing error, in listing order.
RECURSIVE GoodKeys(_)
GoodKeys(l) ==
    IF l = <<>> THEN <<>>
    ELSE IF Head(l).err THEN GoodKeys(Tail(l))
         ELSE <<Head(l).key>> \o GoodKeys(Tail(l))

\* The listing delivered by ListObjects: item i has key i; any item may
\* carry a listing error.
Listings ==
    UNION { { [i \in 1..n |-> [key |-> i, err |-> f[i]]] : f \in [1..n -> BOOLEAN] }
            : n \in 0..MaxList }

\* Environment variables read by writeAsZip and the values tried for them;
\* os.Getenv gives "" for a variable that is not set.
EnvNames == {"INMEMORY", "COMPRESS", "SKIPERRS"}
EnvValues == {"", "true", "false"}

\* No environment variable set.
DefaultEnv == [v \in EnvNames |-> ""]

\* opts before the first writeAsZip call.
NoOpts == [made |-> FALSE, InMemory |-> FALSE, Compress |-> FALSE, SkipErrs |-> FALSE]

\* minio.SnowballOptions{InMemory: os.Getenv("INMEMORY") == "true", ...}
SnowballOptions(e) ==
    [made |-> TRUE,
     InMemory |-> e["INMEMORY"] = "true",
     Compress |-> e["COMPRESS"] = "true",
     SkipErrs |-> e["SKIPERRS"] = "true"]

\* The process is still running (neither returned from main nor log.Fatal).
Running == mainpc \notin {"done", "fatal"}

\* Exit status of the process: 0 on return from main, 1 from log.Fatalln,
\* -1 while it runs.
ExitCode == IF mainpc = "done" THEN 0 ELSE IF mainpc = "fatal" THEN 1 ELSE -1

\* ---- Workers -----------------------------------------------------------

\* New that rejects only negative n.
New_AcceptZero(n) == IF n < 0 THEN [ok |-> FALSE, queue |-> 0]
                     ELSE [ok |-> TRUE, queue |-> n]

\* New(n): n permits put into the queue; n <= 0 is rejected.
New(n) == IF n <= 0 THEN [ok |-> FALSE, queue |-> 0]
          ELSE [ok |-> TRUE, queue |-> n]

\* Take without the receive from the queue.
CanTake_Always == TRUE

\* Take that does not block on an empty queue.
CanTake_NoBlock == queue >= 0

\* <-jt.queue can proceed only when a permit is in the channel.
CanTake == queue > 0

\* Wait left out before the close.
CanWait_Always == TRUE

\* Wait that returns while one job is still counted.
CanWait_OffByOne == wg <= 1

\* jt.wg.Wait() returns when the counter is zero.
CanWait == wg = 0

\* disk-uploader not running: its variables at rest.
DiskQuiet ==
    /\ tree = <<>>
    /\ dwi = 1
    /\ dwpc = "walk"
    /\ dchan = [buf |-> <<>>, closed |-> FALSE]
    /\ dbpc = "recv"
    /\ dentries = <<>>
    /\ dfinal = FALSE
    /\ dtotalObjs = 0
    /\ dipc = "idle"
    /\ dj = 1
    /\ din = [buf |-> <<>>, closed |-> FALSE]
    /\ dreceived = <<>>
    /\ dnoopen = {}
    /\ dbatches = <<>>
    /\ dsunk = <<>>
    /\ duploadErr = FALSE
    /\ dmsg = ""
    /\ dmainpc = "off"

Init ==
    /\ DiskQuiet
    /\ capacity \in 1..MaxCap
    /\ listing \in Listings
    /\ next = 1
    /\ entries = <<>>
    /\ final = FALSE
    /\ mainpc = "list"
    /\ queue = New(capacity).queue
    /\ wg = 0
    /\ lpc = "idle"
    /\ li = 1
    /\ jpc = [k \in Keys |-> "none"]
    /\ input = [buf |-> <<>>, closed |-> FALSE]
    /\ received = <<>>
    /\ errlog = {}
    /\ listErrs = 0
    /\ batches = <<>>
    /\ sunk = <<>>
    /\ stdout = <<>>
    /\ sinkErr = FALSE
    /\ env = DefaultEnv
    /\ opts = NoOpts
    /\ boot = "ok"

\* The process at the first statement of main: nothing constructed yet.  The
\* environment, the requested gate size and a listing of at most one item
\* are inputs.
ConfigInit ==
    /\ DiskQuiet
    /\ capacity \in (-1)..MaxCap
    /\ listing \in {l \in Listings : Len(l) <= 1}
    /\ env \in [EnvNames -> EnvValues]
    /\ opts = NoOpts
    /\ boot = "pending"
    /\ mainpc = "start"
    /\ next = 1
    /\ entries = <<>>
    /\ final = FALSE
    /\ queue = 0
    /\ wg = 0
    /\ lpc = "idle"
    /\ li = 1
    /\ jpc = [k \in Keys |-> "none"]
    /\ input = [buf |-> <<>>, closed |-> FALSE]
    /\ received = <<>>
    /\ errlog = {}
    /\ listErrs = 0
    /\ batches = <<>>
    /\ sunk = <<>>
    /\ stdout = <<>>
    /\ sinkErr = FALSE

\* main up to ListObjects: the two minio.New calls, then New(n) for the
\* gate; any error is log.Fatal.
Startup ==
    /\ mainpc = "start"
    /\ \E clientOK \in BOOLEAN :
         IF ~clientOK
         THEN /\ boot' = "clienterr"
              /\ mainpc' = "fatal"
              /\ UNCHANGED queue
         ELSE IF ~New(capacity).ok
         THEN /\ boot' = "gateerr"
              /\ mainpc' = "fatal"
              /\ UNCHANGED queue
         ELSE /\ boot' = "ok"
              /\ mainpc' = "list"
              /\ queue' = New(capacity).queue
    /\ UNCHANGED dvars
    /\ UNCHANGED <<env, opts, capacity, listing, next, entries, final, wg, lpc, li,
                   jpc, input, received, errlog, listErrs, batches, sunk, stdout, sinkErr>>

\* ---- main --------------------------------------------------------------

\* writeAsZip up to the point where main blocks in PutObjectsSnowball:
\* a fresh handoff channel, the launcher goroutine started.
EnterWriteAsZip(es, fin) ==
    /\ mainpc' = "sink"
    /\ final' = fin
    /\ input' = [buf |-> <<>>, closed |-> FALSE]
    /\ received' = <<>>
    /\ lpc' = "loop"
    /\ li' = 1
    /\ batches' = Append(batches, es)
    /\ opts' = SnowballOptions(env)

\* entries kept after a full batch was written.
AfterBatch_Keep(es) == es

\* entries = []minio.ObjectInfo{} after a full batch was written.
AfterBatch(es) == <<>>

\* A batch cut one entry late.
BatchFull_Late(es) == Len(es) = BatchSize + 1

\* Whether the batch is cut after appending: len(entries) == 100.
BatchFull(es) == Len(es) = BatchSize

\* A listing error that is not looked at.
ListingFailed_Ignored(object) == FALSE

\* if object.Err != nil
ListingFailed(object) == object.err

\* case object, ok := <-objectsCh with ok = true.
ListRecv ==
    /\ mainpc = "list"
    /\ next <= Len(listing)
    /\ next' = next + 1
    /\ LET object == listing[next] IN
       IF ListingFailed(object)
       THEN /\ listErrs' = listErrs + 1
            /\ UNCHANGED <<entries, final, mainpc, input, received, lpc, li, batches, opts>>
       ELSE /\ entries' = Append(entries, object.key)
            /\ UNCHANGED listErrs
            /\ IF BatchFull(entries')
               THEN EnterWriteAsZip(entries', FALSE)
               ELSE UNCHANGED <<final, mainpc, input, received, lpc, li, batches, opts>>
    /\ UNCHANGED dvars
    /\ UNCHANGED <<env, boot, capacity, listing, queue, wg, jpc, errlog, sunk, stdout, sinkErr>>

\* case object, ok := <-objectsCh with ok = false: the final flush.
ListClosed ==
    /\ mainpc = "list"
    /\ next > Len(listing)
    /\ EnterWriteAsZip(entries, TRUE)
    /\ UNCHANGED dvars
    /\ UNCHANGED <<env, boot, capacity, listing, next, entries, queue, wg, jpc, errlog,
                   listErrs, sunk, stdout, sinkErr>>

\* ---- PutObjectsSnowball (called by main) -------------------------------

\* The sink receives one record from the handoff channel.
SinkRecv ==
    /\ mainpc = "sink"
    /\ input.buf # <<>>
    /\ received' = Append(received, Head(input.buf))
    /\ input' = [input EXCEPT !.buf = Tail(@)]
    /\ UNCHANGED dvars
    /\ UNCHANGED <<env, boot, opts, capacity, listing, next, entries, final, mainpc, queue, wg,
                   lpc, li, jpc, errlog, listErrs, batches, sunk, stdout, sinkErr>>

\* The count printed by "Copied %d objects": len(entries).
ReportedCount(es, recv) == Len(es)

\* The sink sees the channel closed, uploads and returns nil; writeAsZip
\* prints the count and returns; main either returns or resets entries.
SinkDone ==
    /\ mainpc = "sink"
    /\ input.buf = <<>>
    /\ input.closed
    /\ sunk' = Append(sunk, [keys |-> SeqSet(received), n |-> Len(received)])
    /\ stdout' = Append(stdout, ReportedCount(entries, received))
    /\ received' = <<>>
    /\ IF final
       THEN mainpc' = "done" /\ UNCHANGED entries
       ELSE mainpc' = "list" /\ entries' = AfterBatch(entries)
    /\ UNCHANGED dvars
    /\ UNCHANGED <<env, boot, opts, capacity, listing, next, final, queue, wg, lpc, li, jpc,
                   input, errlog, listErrs, batches, sinkErr>>

\* PutObjectsSnowball returns an error: log.Fatalln(err) ends the process.
\* os.Exit destroys every goroutine and the process memory with it: the
\* launcher, the jobs, the gate and the handoff channel cease to exist, which
\* the model records as their empty values.  What the process printed,
\* uploaded and consumed from the listing stays.
SinkFail ==
    /\ mainpc = "sink"
    /\ mainpc' = "fatal"
    /\ sinkErr' = TRUE
    /\ entries' = <<>>
    /\ final' = FALSE
    /\ queue' = capacity
    /\ wg' = 0
    /\ lpc' = "idle"
    /\ li' = 1
    /\ jpc' = [k \in Keys |-> "none"]
    /\ input' = [buf |-> <<>>, closed |-> FALSE]
    /\ received' = <<>>
    /\ UNCHANGED dvars
    /\ UNCHANGED <<env, boot, opts, capacity, listing, next, errlog, listErrs, batches, sunk, stdout>>

\* ---- launcher goroutine of writeAsZip ----------------------------------

\* Take without jt.wg.Add(1).
TakeAdd_NoAdd ==
    /\ Running
    /\ lpc = "loop"
    /\ li <= Len(entries)
    /\ lpc' = "take"
    /\ UNCHANGED dvars
    /\ UNCHANGED <<env, boot, opts, capacity, listing, next, entries, final, mainpc, queue, wg, li,
                   jpc, input, received, errlog, listErrs, batches, sunk, stdout, sinkErr>>

\* workers.Take(), first half: jt.wg.Add(1).
TakeAdd ==
    /\ Running
    /\ lpc = "loop"
    /\ li <= Len(entries)
    /\ wg' = wg + 1
    /\ lpc' = "take"
    /\ UNCHANGED dvars
    /\ UNCHANGED <<env, boot, opts, capacity, listing, next, entries, final, mainpc, queue, li,
                   jpc, input, received, errlog, listErrs, batches, sunk, stdout, sinkErr>>

\* workers.Take(), second half: <-jt.queue; then go func() starts the job.
TakeRecv ==
    /\ Running
    /\ lpc = "take"
    /\ CanTake
    /\ queue' = queue - 1
    /\ jpc' = [jpc EXCEPT ![entries[li]] = "get"]
    /\ li' = li + 1
    /\ lpc' = "loop"
    /\ UNCHANGED dvars
    /\ UNCHANGED <<env, boot, opts, capacity, listing, next, entries, final, mainpc, wg, input,
                   received, errlog, listErrs, batches, sunk, stdout, sinkErr>>

\* workers.Wait() returns after the last entry was launched.
Wait ==
    /\ Running
    /\ lpc = "loop"
    /\ li > Len(entries)
    /\ CanWait
    /\ lpc' = "close"
    /\ UNCHANGED dvars
    /\ UNCHANGED <<env, boot, opts, capacity, listing, next, entries, final, mainpc, queue, wg, li,
                   jpc, input, received, errlog, listErrs, batches, sunk, stdout, sinkErr>>

\* defer close(input).
CloseInput ==
    /\ Running
    /\ lpc = "close"
    /\ input' = [input EXCEPT !.closed = TRUE]
    /\ lpc' = "exited"
    /\ UNCHANGED dvars
    /\ UNCHANGED <<env, boot, opts, capacity, listing, next, entries, final, mainpc, queue, wg, li,
                   jpc, received, errlog, listErrs, batches, sunk, stdout, sinkErr>>

\* ---- fetch job ---------------------------------------------------------

\* GetObject whose error branch misses the return and publishes anyway.
GetObject_NoReturn(k) ==
    /\ Running
    /\ jpc[k] = "get"
    /\ \E ok \in BOOLEAN :
         IF ok
         THEN jpc' = [jpc EXCEPT ![k] = "send"] /\ UNCHANGED errlog
         ELSE jpc' = [jpc EXCEPT ![k] = "send"] /\ errlog' = errlog \cup {k}
    /\ UNCHANGED dvars
    /\ UNCHANGED <<env, boot, opts, capacity, listing, next, entries, final, mainpc, queue, wg, lpc,
                   li, input, received, listErrs, batches, sunk, stdout, sinkErr>>

\* GetObject whose error branch ends the process (log.Fatalln).
GetObject_Fatal(k) ==
    /\ Running
    /\ jpc[k] = "get"
    /\ \E ok \in BOOLEAN :
         IF ok
         THEN jpc' = [jpc EXCEPT ![k] = "send"] /\ UNCHANGED <<errlog, mainpc>>
         ELSE /\ jpc' = [jpc EXCEPT ![k] = "give"]
              /\ errlog' = errlog \cup {k}
              /\ mainpc' = "fatal"
    /\ UNCHANGED dvars
    /\ UNCHANGED <<env, boot, opts, capacity, listing, next, entries, final, queue, wg, lpc,
                   li, input, received, listErrs, batches, sunk, stdout, sinkErr>>

\* GetObject whose error branch returns without the deferred Give.
GetObject_NoGive(k) ==
    /\ Running
    /\ jpc[k] = "get"
    /\ \E ok \in BOOLEAN :
         IF ok
         THEN jpc' = [jpc EXCEPT ![k] = "send"] /\ UNCHANGED errlog
         ELSE jpc' = [jpc EXCEPT ![k] = "done"] /\ errlog' = errlog \cup {k}
    /\ UNCHANGED dvars
    /\ UNCHANGED <<env, boot, opts, capacity, listing, next, entries, final, mainpc, queue, wg, lpc,
                   li, input, received, listErrs, batches, sunk, stdout, sinkErr>>

\* srcClnt.GetObject: on error print the key and return (deferred Give).
GetObject(k) ==
    /\ Running
    /\ jpc[k] = "get"
    /\ \E ok \in BOOLEAN :
         IF ok
         THEN jpc' = [jpc EXCEPT ![k] = "send"] /\ UNCHANGED errlog
         ELSE jpc' = [jpc EXCEPT ![k] = "give"] /\ errlog' = errlog \cup {k}
    /\ UNCHANGED dvars
    /\ UNCHANGED <<env, boot, opts, capacity, listing, next, entries, final, mainpc, queue, wg, lpc,
                   li, input, received, listErrs, batches, sunk, stdout, sinkErr>>

\* A send that never waits for room in the buffer.
CanPublish_Always == TRUE

\* A send that finds room for one record more than the buffer holds.
CanPublish_Two == Len(input.buf) < InputCap + 1

\* A send on the handoff channel can proceed while the buffer has room.
CanPublish == Len(input.buf) < InputCap

\* input <- minio.SnowballObject{...}
Publish(k) ==
    /\ Running
    /\ jpc[k] = "send"
    /\ CanPublish
    /\ input' = [input EXCEPT !.buf = Append(@, k)]
    /\ jpc' = [jpc EXCEPT ![k] = "give"]
    /\ UNCHANGED dvars
    /\ UNCHANGED <<env, boot, opts, capacity, listing, next, entries, final, mainpc, queue, wg, lpc,
                   li, received, errlog, listErrs, batches, sunk, stdout, sinkErr>>

\* Give that does not put the permit back.
GiveQueue_Skip(k) ==
    /\ Running
    /\ jpc[k] = "give"
    /\ jpc' = [jpc EXCEPT ![k] = "wgdone"]
    /\ UNCHANGED dvars
    /\ UNCHANGED <<env, boot, opts, capacity, listing, next, entries, final, mainpc, queue, wg, lpc, li,
                   input, received, errlog, listErrs, batches, sunk, stdout, sinkErr>>

\* workers.Give(), first half: jt.queue <- struct{}{}.
GiveQueue(k) ==
    /\ Running
    /\ jpc[k] = "give"
    /\ queue < capacity
    /\ queue' = queue + 1
    /\ jpc' = [jpc EXCEPT ![k] = "wgdone"]
    /\ UNCHANGED dvars
    /\ UNCHANGED <<env, boot, opts, capacity, listing, next, entries, final, mainpc, wg, lpc, li,
                   input, received, errlog, listErrs, batches, sunk, stdout, sinkErr>>

\* workers.Give(), second half: jt.wg.Done().
GiveDone(k) ==
    /\ Running
    /\ jpc[k] = "wgdone"
    /\ wg' = wg - 1
    /\ jpc' = [jpc EXCEPT ![k] = "done"]
    /\ UNCHANGED dvars
    /\ UNCHANGED <<env, boot, opts, capacity, listing, next, entries, final, mainpc, queue, lpc, li,
                   input, received, errlog, listErrs, batches, sunk, stdout, sinkErr>>

Next ==
    \/ ListRecv
    \/ ListClosed
    \/ SinkRecv
    \/ SinkDone
    \/ SinkFail
    \/ TakeAdd
    \/ TakeRecv
    \/ Wait
    \/ CloseInput
    \/ \E k \in Keys : GetObject(k)
    \/ \E k \in Keys : Publish(k)
    \/ \E k \in Keys : GiveQueue(k)
    \/ \E k \in Keys : GiveDone(k)

\* The steps of a run in which PutObjectsSnowball does not fail.
NextNoSinkFail ==
    \/ ListRecv
    \/ ListClosed
    \/ SinkRecv
    \/ SinkDone
    \/ TakeAdd
    \/ TakeRecv
    \/ Wait
    \/ CloseInput
    \/ \E k \in Keys : GetObject(k)
    \/ \E k \in Keys : Publish(k)
    \/ \E k \in Keys : GiveQueue(k)
    \/ \E k \in Keys : GiveDone(k)

\* ---- disk-uploader -----------------------------------------------------

\* Buffer size of the walk channel: make(chan minio.SnowballObject).
WalkCap == 0

\* Buffer size of the channel of disk writeAsZip:
\* make(chan minio.SnowballObject, 1).
DiskInputCap == 1

\* What the walk can present: a regular file, an entry walkFn returns nil
\* for (directory, ignored file, permission error), an entry with another
\* walk error.
Trees ==
    UNION { [1..n -> {"reg", "skip", "fail"}] : n \in 0..MaxList }

\* disk-uploader's process is running (main waits on doneCh).
DRunning == dmainpc = "wait"

\* The state after main started its two goroutines.
DiskInit ==
    /\ tree \in Trees
    /\ dwi = 1
    /\ dwpc = "walk"
    /\ dchan = [buf |-> <<>>, closed |-> FALSE]
    /\ dbpc = "recv"
    /\ dentries = <<>>
    /\ dfinal = FALSE
    /\ dtotalObjs = 0
    /\ dipc = "idle"
    /\ dj = 1
    /\ din = [buf |-> <<>>, closed |-> FALSE]
    /\ dreceived = <<>>
    /\ dnoopen = {}
    /\ dbatches = <<>>
    /\ dsunk = <<>>
    /\ duploadErr = FALSE
    /\ dmsg = ""
    /\ dmainpc = "wait"
    /\ capacity = 1
    /\ listing = <<>>
    /\ next = 1
    /\ entries = <<>>
    /\ final = FALSE
    /\ mainpc = "off"
    /\ queue = 0
    /\ wg = 0
    /\ lpc = "idle"
    /\ li = 1
    /\ jpc = [k \in Keys |-> "none"]
    /\ input = [buf |-> <<>>, closed |-> FALSE]
    /\ received = <<>>
    /\ errlog = {}
    /\ listErrs = 0
    /\ batches = <<>>
    /\ sunk = <<>>
    /\ stdout = <<>>
    /\ sinkErr = FALSE
    /\ env = DefaultEnv
    /\ opts = NoOpts
    /\ boot = "pending"

\* walkFn for the entry at dwi: nil without a send, the walk error (Walk
\* returns it and log.Fatalf ends the process), or a regular file to send.
WalkFn ==
    /\ DRunning
    /\ dwpc = "walk"
    /\ dwi <= Len(tree)
    /\ IF tree[dwi] = "skip"
       THEN dwi' = dwi + 1 /\ UNCHANGED <<dwpc, dmainpc>>
       ELSE IF tree[dwi] = "fail"
       THEN dmainpc' = "fatal" /\ UNCHANGED <<dwi, dwpc>>
       ELSE dwpc' = "send" /\ UNCHANGED <<dwi, dmainpc>>
    /\ UNCHANGED <<tree, dchan, dbpc, dentries, dfinal, dtotalObjs, dipc, dj, din,
                   dreceived, dnoopen, dbatches, dsunk, duploadErr, dmsg>>
    /\ UNCHANGED pvars

\* A send on a walk channel that had one buffer slot.
CanWalkSend_Buffered == Len(dchan.buf) < WalkCap + 1

\* A send on the walk channel can proceed when the buffer has room or, the
\* buffer being full, the batching loop waits in its receive.
CanWalkSend ==
    Len(dchan.buf) < WalkCap + (IF dbpc = "recv" THEN 1 ELSE 0)

\* input <- minio.SnowballObject{Key: path, ...} in walkFn.
WalkSend ==
    /\ DRunning
    /\ dwpc = "send"
    /\ CanWalkSend
    /\ dchan' = [dchan EXCEPT !.buf = Append(@, dwi)]
    /\ dwi' = dwi + 1
    /\ dwpc' = "walk"
    /\ UNCHANGED <<tree, dbpc, dentries, dfinal, dtotalObjs, dipc, dj, din,
                   dreceived, dnoopen, dbatches, dsunk, duploadErr, dmsg, dmainpc>>
    /\ UNCHANGED pvars

\* Walk returned nil: defer close(input).
WalkDone ==
    /\ DRunning
    /\ dwpc = "walk"
    /\ dwi > Len(tree)
    /\ dchan' = [dchan EXCEPT !.closed = TRUE]
    /\ dwpc' = "closed"
    /\ UNCHANGED <<tree, dwi, dbpc, dentries, dfinal, dtotalObjs, dipc, dj, din,
                   dreceived, dnoopen, dbatches, dsunk, duploadErr, dmsg, dmainpc>>
    /\ UNCHANGED pvars

\* disk writeAsZip up to the point where the batching goroutine blocks in
\* PutObjectsSnowball: a fresh channel, the opening goroutine started.
EnterDiskWriteAsZip(es, fin) ==
    /\ dbpc' = "upload"
    /\ dfinal' = fin
    /\ din' = [buf |-> <<>>, closed |-> FALSE]
    /\ dreceived' = <<>>
    /\ dipc' = "open"
    /\ dj' = 1
    /\ dbatches' = Append(dbatches, es)

\* case sobj, ok := <-input with ok = true.
BatchRecv ==
    /\ DRunning
    /\ dbpc = "recv"
    /\ dchan.buf # <<>>
    /\ dchan' = [dchan EXCEPT !.buf = Tail(@)]
    /\ dentries' = Append(dentries, Head(dchan.buf))
    /\ IF BatchFull(dentries')
       THEN EnterDiskWriteAsZip(dentries', FALSE) /\ UNCHANGED dtotalObjs
       ELSE /\ dtotalObjs' = dtotalObjs + 1
            /\ UNCHANGED <<dbpc, dfinal, din, dreceived, dipc, dj, dbatches>>
    /\ UNCHANGED <<tree, dwi, dwpc, dnoopen, dsunk, duploadErr, dmsg, dmainpc>>
    /\ UNCHANGED pvars

\* case sobj, ok := <-input with ok = false: the final writeAsZip.
BatchClosed ==
    /\ DRunning
    /\ dbpc = "recv"
    /\ dchan.buf = <<>>
    /\ dchan.closed
    /\ EnterDiskWriteAsZip(dentries, TRUE)
    /\ UNCHANGED <<tree, dwi, dwpc, dchan, dentries, dtotalObjs, dnoopen, dsunk,
                   duploadErr, dmsg, dmainpc>>
    /\ UNCHANGED pvars

\* os.Open(entry.Key) in the goroutine of disk writeAsZip: on error continue.
DiskOpen ==
    /\ DRunning
    /\ dipc = "open"
    /\ dj <= Len(dbatches[Len(dbatches)])
    /\ \E ok \in BOOLEAN :
         IF ok
         THEN dipc' = "send" /\ UNCHANGED <<dj, dnoopen>>
         ELSE /\ dnoopen' = dnoopen \cup {dbatches[Len(dbatches)][dj]}
              /\ dj' = dj + 1
              /\ UNCHANGED dipc
    /\ UNCHANGED <<tree, dwi, dwpc, dchan, dbpc, dentries, dfinal, dtotalObjs, din,
                   dreceived, dbatches, dsunk, duploadErr, dmsg, dmainpc>>
    /\ UNCHANGED pvars

\* input <- entry in the goroutine of disk writeAsZip.
DiskPublish ==
    /\ DRunning
    /\ dipc = "send"
    /\ Len(din.buf) < DiskInputCap
    /\ din' = [din EXCEPT !.buf = Append(@, dbatches[Len(dbatches)][dj])]
    /\ dj' = dj + 1
    /\ dipc' = "open"
    /\ UNCHANGED <<tree, dwi, dwpc, dchan, dbpc, dentries, dfinal, dtotalObjs,
                   dreceived, dnoopen, dbatches, dsunk, duploadErr, dmsg, dmainpc>>
    /\ UNCHANGED pvars

\* End of the range loop: defer close(input).
DiskClose ==
    /\ DRunning
    /\ dipc = "open"
    /\ dj > Len(dbatches[Len(dbatches)])
    /\ din' = [din EXCEPT !.closed = TRUE]
    /\ dipc' = "exited"
    /\ UNCHANGED <<tree, dwi, dwpc, dchan, dbpc, dentries, dfinal, dtotalObjs, dj,
                   dreceived, dnoopen, dbatches, dsunk, duploadErr, dmsg, dmainpc>>
    /\ UNCHANGED pvars

\* PutObjectsSnowball receives one record.
DiskSinkRecv ==
    /\ DRunning
    /\ dbpc = "upload"
    /\ din.buf # <<>>
    /\ dreceived' = Append(dreceived, Head(din.buf))
    /\ din' = [din EXCEPT !.buf = Tail(@)]
    /\ UNCHANGED <<tree, dwi, dwpc, dchan, dbpc, dentries, dfinal, dtotalObjs, dipc,
                   dj, dnoopen, dbatches, dsunk, duploadErr, dmsg, dmainpc>>
    /\ UNCHANGED pvars

\* PutObjectsSnowball sees the channel closed and returns nil: after the
\* final call the goroutine describes the result and returns (doneCh is
\* closed); after a full batch it resets entries and counts the object.
DiskSinkDone ==
    /\ DRunning
    /\ dbpc = "upload"
    /\ din.buf = <<>>
    /\ din.closed
    /\ dsunk' = Append(dsunk, [keys |-> SeqSet(dreceived), n |-> Len(dreceived)])
    /\ dreceived' = <<>>
    /\ IF dfinal
       THEN /\ dmsg' = "finished"
            /\ dbpc' = "stopped"
            /\ UNCHANGED <<dentries, dtotalObjs>>
       ELSE /\ dentries' = AfterBatch(dentries)
            /\ dtotalObjs' = dtotalObjs + 1
            /\ dbpc' = "recv"
            /\ UNCHANGED dmsg
    /\ UNCHANGED <<tree, dwi, dwpc, dchan, dfinal, dipc, dj, din, dnoopen,
                   dbatches, duploadErr, dmainpc>>
    /\ UNCHANGED pvars

\* An upload failure that ends the process, as log.Fatalln would.
DiskSinkFail_Fatal ==
    /\ DRunning
    /\ dbpc = "upload"
    /\ duploadErr' = TRUE
    /\ dmsg' = IF dfinal THEN "failed at the end" ELSE "failed"
    /\ dbpc' = "stopped"
    /\ dmainpc' = "fatal"
    /\ UNCHANGED <<tree, dwi, dwpc, dchan, dentries, dfinal, dtotalObjs, dipc, dj,
                   din, dreceived, dnoopen, dbatches, dsunk>>
    /\ UNCHANGED pvars

\* PutObjectsSnowball returns an error: the goroutine describes the failure
\* and returns (doneCh is closed), for a full batch and for the final one.
DiskSinkFail ==
    /\ DRunning
    /\ dbpc = "upload"
    /\ duploadErr' = TRUE
    /\ dmsg' = IF dfinal THEN "failed at the end" ELSE "failed"
    /\ dbpc' = "stopped"
    /\ UNCHANGED <<tree, dwi, dwpc, dchan, dentries, dfinal, dtotalObjs, dipc, dj,
                   din, dreceived, dnoopen, dbatches, dsunk, dmainpc>>
    /\ UNCHANGED pvars

\* <-doneCh; pb.Exit(); main returns.
DiskMainExit ==
    /\ dmainpc = "wait"
    /\ dbpc = "stopped"
    /\ dmainpc' = "exit0"
    /\ UNCHANGED <<tree, dwi, dwpc, dchan, dbpc, dentries, dfinal, dtotalObjs, dipc,
                   dj, din, dreceived, dnoopen, dbatches, dsunk, duploadErr, dmsg>>
    /\ UNCHANGED pvars

\* Exit status of disk-uploader: 0 on return from main, 1 from log.Fatalf.
DiskExitCode == IF dmainpc = "exit0" THEN 0 ELSE IF dmainpc = "fatal" THEN 1 ELSE -1

DiskNext ==
    \/ WalkFn
    \/ WalkSend
    \/ WalkDone
    \/ BatchRecv
    \/ BatchClosed
    \/ DiskOpen
    \/ DiskPublish
    \/ DiskClose
    \/ DiskSinkRecv
    \/ DiskSinkDone
    \/ DiskSinkFail
    \/ DiskMainExit

DiskSpec == DiskInit /\ [][DiskNext]_vars

\* A run from the first statement of main.
ConfigNext ==
    \/ Startup
    \/ Next

ConfigSpec == ConfigInit /\ [][ConfigNext]_vars

Spec == Init /\ [][Next]_vars

\* Goroutines that can run are eventually run by the Go scheduler.
FairSpec == Spec /\ WF_vars(Next)

TypeOK ==
    /\ capacity \in 1..MaxCap
    /\ next \in 1..(MaxList + 1)
    /\ queue \in 0..capacity
    /\ wg \in 0..BatchSize
    /\ mainpc \in {"list", "sink", "done", "fatal"}
    /\ lpc \in {"idle", "loop", "take", "close", "exited"}
    /\ jpc \in [Keys -> {"none", "get", "send", "give", "wgdone", "done"}]
\* ---- properties --------------------------------------------------------

\* Fetch jobs that hold a permit: launched after Take, permit not yet put back.
Held == {k \in Keys : jpc[k] \in {"get", "send", "give"}}

\* No goroutine of a fan-out is active and the gate is back to its full state.
Quiescent ==
    /\ lpc \in {"idle", "exited"}
    /\ \A k \in Keys : jpc[k] \in {"none", "done"}
    /\ queue = capacity
    /\ wg = 0

\* Keys of batch b whose fetch-open failed.
FailedIn(b) == SeqSet(b) \cap errlog

\* Objects opened successfully that the sink has not received yet.
OpenedUnreceived == Cardinality({k \in Keys : jpc[k] = "send"}) + Len(input.buf)

CeilDiv(m, n) == (m + n - 1) \div n

\* C1: at every moment the number of fetch jobs that have taken a permit and
\* not yet given it back is at most the gate capacity.
C1_GateBound == Cardinality(Held) <= capacity

\* The gate is full and the launcher is blocked in Take for a further job.
C1_Witness == capacity = 2 /\ Cardinality(Held) = 2 /\ lpc = "take"

\* C2: a batch of n descriptors with k fetch-open failures delivers exactly
\* n-k records to the sink, one per opened descriptor and each key once, by
\* the time the sink sees the closed channel; the batch is reported, is not
\* fatal, and the driver continues.
C2_SkipSemantics ==
    /\ \A i \in 1..Len(sunk) :
         /\ sunk[i].n = Len(batches[i]) - Cardinality(FailedIn(batches[i]))
         /\ sunk[i].keys = SeqSet(batches[i]) \ errlog
         /\ Cardinality(sunk[i].keys) = sunk[i].n
         /\ (i < Len(batches) \/ mainpc \in {"list", "done"})
    /\ (mainpc = "sink" /\ input.closed /\ input.buf = <<>>) =>
         /\ Len(received) = Len(entries) - Cardinality(FailedIn(entries))
         /\ SeqSet(received) = SeqSet(entries) \ errlog
    /\ Len(stdout) = Len(sunk)
    /\ (mainpc = "fatal" => sinkErr)

C2_Witness ==
    \E i \in 1..Len(sunk) :
        /\ FailedIn(batches[i]) # {}
        /\ sunk[i].n >= 1
        /\ i < Len(batches)

\* C3: at the end of the listing the number of sink invocations is
\* ceil(M/N) for M error-free descriptors (zero when M = 0), every batch
\* has N descriptors except possibly the last, and no empty batch is emitted.
C3_BatchCount ==
    mainpc = "done" =>
        LET m == Len(GoodKeys(listing)) IN
        /\ Len(batches) = CeilDiv(m, BatchSize)
        /\ \A i \in 1..Len(batches) :
             /\ Len(batches[i]) >= 1
             /\ (i < Len(batches) => Len(batches[i]) = BatchSize)

\* C4: when the driver reaches the end of the listing without a sink
\* failure, the concatenation of the batches passed to writeAsZip is the
\* listing's sequence of error-free descriptors.
C4_Partition == mainpc = "done" => Flatten(batches) = GoodKeys(listing)

C4_Witness ==
    /\ mainpc = "done"
    /\ Len(GoodKeys(listing)) > BatchSize
    /\ Len(batches) = 2
    /\ Len(batches[2]) >= 1

\* C5: batches are strictly sequential: whenever main is outside the sink
\* call every fetch job has released its permit, the launcher has exited and
\* the handoff channel of the finished batch is closed; active jobs always
\* belong to the batch of the one outstanding sink call.
C5_Sequential ==
    /\ (mainpc \in {"list", "done"} => Quiescent)
    /\ (mainpc \in {"list", "done"} /\ Len(batches) > 0 => input.closed)
    /\ (mainpc = "sink" => Len(sunk) = Len(batches) - 1)
    /\ (mainpc \in {"list", "done"} => Len(sunk) = Len(batches))
    /\ \A k \in Keys :
         jpc[k] \notin {"none", "done"} =>
            /\ mainpc \in {"sink", "fatal"}
            /\ k \in SeqSet(batches[Len(batches)])

C5_Witness ==
    /\ mainpc = "done"
    /\ Len(batches) = 2
    /\ Len(batches[1]) = BatchSize
    /\ Len(batches[2]) = 1
    /\ sunk[1].n = BatchSize
    /\ sunk[2].n = 1

\* C6: Wait returns only once every job counted by Take has finished Give;
\* with no Take at all Wait can return at once.
C6_WaitBarrier ==
    /\ (lpc \in {"close", "exited"} =>
          /\ li > Len(batches[Len(batches)])
          /\ \A k \in Keys : jpc[k] \in {"none", "done"}
          /\ \A k \in SeqSet(batches[Len(batches)]) : jpc[k] = "done")
    /\ (Running /\ lpc = "loop" /\ entries = <<>> => ENABLED Wait)

C6_Witness ==
    /\ lpc = "close"
    /\ entries = <<>>
    /\ Len(sunk) >= 1
    /\ Len(batches[1]) = BatchSize

\* C7: a sink failure ends the whole run with a non-zero exit: the failed
\* batch is not retried or reported, nothing happens afterwards, and only a
\* sink failure (never a fetch-open or listing error) leads there.
C7_FatalState ==
    /\ (mainpc = "fatal") = sinkErr
    /\ (sinkErr => ExitCode = 1)
    /\ (sinkErr => Len(stdout) = Len(batches) - 1 /\ Len(sunk) = Len(batches) - 1)

C7_SinkFailureFatal ==
    /\ []C7_FatalState
    /\ [][mainpc # "fatal"]_vars
    /\ [][mainpc' = "fatal" =>
            /\ mainpc = "sink"
            /\ sinkErr'
            /\ errlog' = errlog
            /\ listErrs' = listErrs]_vars

C7_Witness ==
    /\ mainpc = "fatal"
    /\ errlog # {}
    /\ Len(batches) = 1
    /\ Len(batches[1]) = BatchSize
    /\ next <= Len(listing)

\* C8: the count reported after each successful sink call equals the number
\* of records the sink received for that batch.
C8_ReportedCount ==
    \A i \in 1..Len(stdout) : stdout[i] = sunk[i].n

\* C9: if the sink keeps consuming and never fails, then under fair
\* scheduling every fan-out finishes and the driver reaches the end; no
\* reachable state of a running process is stuck.
NoDeadlock == Running => ENABLED <<NextNoSinkFail>>_vars

C9_Terminates ==
    /\ ([]~sinkErr => <>(mainpc = "done" /\ Quiescent /\ input.closed))
    /\ []NoDeadlock

C9_Witness ==
    /\ mainpc = "done"
    /\ capacity = 1
    /\ Len(batches) = 2
    /\ Len(batches[2]) >= 1
    /\ Cardinality(errlog) >= 2

\* C10 as stated: at most one object is opened successfully and not yet
\* received by the sink.
C10_AtMostOne == OpenedUnreceived <= 1

\* C10 amended: the handoff channel buffers at most one record, and the
\* objects opened but not yet received number at most capacity + 1.
C10_Buffered ==
    /\ Len(input.buf) <= 1
    /\ OpenedUnreceived <= capacity + 1
    /\ Cardinality({k \in Keys : jpc[k] = "send"}) <= capacity

C10_Witness ==
    /\ OpenedUnreceived = capacity + 1
    /\ Len(input.buf) = 1
\* Keys of the listing items that carry a listing error.
ErrKeys == {listing[i].key : i \in {j \in 1..Len(listing) : listing[j].err}}

\* The batch of the current (or last) writeAsZip call.
CurrentBatch == IF batches = <<>> THEN <<>> ELSE batches[Len(batches)]

\* Fetch jobs that were started and have not returned.
Unfinished == {k \in Keys : jpc[k] \in {"get", "send", "give", "wgdone"}}

\* Jobs of the current batch that were launched and whose fetch-open has not failed.
LaunchedNotFailed == {k \in SeqSet(CurrentBatch) : jpc[k] # "none"} \ errlog

\* s is in increasing key order (the order of the batch).
InBatchOrder(s) == \A i \in 1..Len(s) : \A j \in 1..Len(s) : i < j => s[i] < s[j]

\* C11: a descriptor with a listing error is skipped: it is in no batch and
\* is never fetched, it does not count towards the batch size, each skip is
\* logged, and the driver goes on to the end of the listing.
C11_SkipListingErrors ==
    /\ \A k \in ErrKeys :
         /\ jpc[k] = "none"
         /\ k \notin SeqSet(entries)
         /\ k \notin SeqSet(Flatten(batches))
    /\ (mainpc = "list" =>
          Flatten(batches) \o entries = GoodKeys(SubSeq(listing, 1, next - 1)))
    /\ listErrs = Cardinality({i \in 1..(next - 1) : listing[i].err})
    /\ (mainpc = "done" => next = Len(listing) + 1)

C11_Witness ==
    /\ mainpc = "done"
    /\ Len(listing) = BatchSize + 1
    /\ listing[1].err
    /\ Len(batches[1]) = BatchSize
    /\ sunk[1].n = BatchSize

\* C12: no archive holds more entries than the batch size: no writeAsZip
\* call gets more descriptors and no sink call receives more records, for any
\* listing, listing errors and fetch failures.
C12_ArchiveBound ==
    /\ \A i \in 1..Len(batches) : Len(batches[i]) <= BatchSize
    /\ \A i \in 1..Len(sunk) : sunk[i].n <= BatchSize
    /\ Len(received) + Len(input.buf) <= BatchSize
    /\ Len(entries) <= BatchSize

C12_Witness ==
    /\ Len(sunk) >= 1
    /\ sunk[1].n = BatchSize
    /\ listErrs > 0
    /\ Len(listing) > BatchSize

\* C15: the handoff channel of a batch is closed once, after every fetch job
\* of the batch has finished; no job is ever about to publish on a closed
\* channel.
C15_CloseState ==
    /\ (lpc = "close" => ~input.closed)
    /\ (input.closed => lpc = "exited" /\ Unfinished = {})
    /\ \A k \in Keys : jpc[k] = "send" => ~input.closed

C15_CloseOnce ==
    /\ []C15_CloseState
    /\ [][(input'.closed /\ ~input.closed) =>
            /\ lpc = "close"
            /\ Unfinished = {}
            /\ \A k \in SeqSet(CurrentBatch) : jpc[k] = "done"]_vars
    /\ [][(input.closed /\ ~input'.closed) =>
            /\ input' = [buf |-> <<>>, closed |-> FALSE]
            /\ (mainpc = "list" \/ mainpc' = "fatal")]_vars

C15_Witness ==
    /\ input.closed
    /\ capacity = 2
    /\ Len(CurrentBatch) = BatchSize
    /\ Len(received) + Len(input.buf) = BatchSize

\* C16: permits are conserved: available permits plus permits held by jobs
\* equal the capacity in every state, the in-flight counter equals the number
\* of unfinished Takes (zero exactly when there is none), and a batch starts
\* with all permits available.
C16_PermitConservation ==
    /\ queue + Cardinality(Held) = capacity
    /\ wg = Cardinality(Unfinished) + (IF lpc = "take" THEN 1 ELSE 0)
    /\ (wg = 0) = (Unfinished = {} /\ lpc # "take")
    /\ (lpc = "loop" /\ li = 1 => queue = capacity)

C16_Witness ==
    /\ Len(batches) = 2
    /\ capacity = 2
    /\ queue = capacity
    /\ wg = 1
    /\ errlog # {}
    /\ \E k \in Keys : jpc[k] = "wgdone"

\* C17: there is no launch/consume barrier: the launcher cannot get further
\* ahead of the sink than the gate and the one-slot channel allow (launched
\* jobs whose open has not failed <= records received + capacity + 1), so the
\* sink receives records while later descriptors are still to be launched.
C17_NoBarrier ==
    /\ (mainpc = "sink" =>
          Cardinality(LaunchedNotFailed) <= Len(received) + capacity + 1)
    /\ (lpc = "take" /\ queue = 0 => ~ENABLED TakeRecv)

C17_Witness ==
    /\ mainpc = "sink"
    /\ Len(received) >= 1
    /\ lpc = "take"
    /\ queue = 0
    /\ li = Len(entries)
    /\ errlog = {}

\* C18: with capacity 1 the records reach the sink in batch order; with a
\* larger capacity the order is not fixed (the witness is a delivery against
\* batch order).
C18_OrderCapacityOne ==
    capacity = 1 => InBatchOrder(received \o input.buf)

C18_Witness ==
    /\ capacity >= 2
    /\ Len(received) = 2
    /\ received[1] > received[2]
\* C13: with no INMEMORY, COMPRESS or SKIPERRS setting the sink is configured
\* with in-memory buffering on, compression off and skip-errors off, and
\* in-memory buffering is off only when INMEMORY is set to false.
C13_DefaultOptions ==
    opts.made =>
        /\ (env = DefaultEnv => opts.InMemory /\ ~opts.Compress /\ ~opts.SkipErrs)
        /\ (~opts.InMemory => env["INMEMORY"] = "false")

\* C14: New(n) with n <= 0 gives an error and no gate, with n >= 1 a gate
\* with n permits; a failed client or gate construction ends the run before
\* anything is listed, fetched or uploaded.
C14_ConfigState ==
    /\ (boot = "gateerr" => capacity <= 0 /\ queue = 0)
    /\ (capacity <= 0 => boot # "ok")
    /\ (boot = "ok" /\ batches = <<>> => capacity >= 1 /\ queue = capacity)
    /\ (boot \in {"clienterr", "gateerr"} =>
          /\ mainpc = "fatal"
          /\ ExitCode = 1
          /\ next = 1
          /\ listErrs = 0
          /\ batches = <<>>
          /\ sunk = <<>>
          /\ \A k \in Keys : jpc[k] = "none")

C14_ConfigFailFast ==
    /\ []C14_ConfigState
    /\ [][boot \notin {"clienterr", "gateerr"}]_vars
    /\ [][boot = "pending" => next' = next /\ batches' = batches]_vars

C14_Witness ==
    /\ boot = "gateerr"
    /\ capacity = 0
    /\ listing # <<>>
\* Keys the walker has sent and keys the batching loop has received.
WalkSent == {i \in 1..(dwi - 1) : tree[i] = "reg"}
BatchTaken == SeqSet(Flatten(dbatches)) \cup SeqSet(dentries)

\* C19 as stated: the walk channel is unbounded, so a send of the walker
\* never waits for the batching loop.
C19_UnboundedWalk == (DRunning /\ dwpc = "send") => ENABLED WalkSend

\* C19 amended: the walk channel is unbuffered: a descriptor is sent only
\* to a batching loop waiting in its receive, the walker is never more than
\* the descriptor in transit ahead, and during an upload nothing is sent.
C19_Rendezvous ==
    /\ WalkSent \ BatchTaken = SeqSet(dchan.buf)
    /\ Len(dchan.buf) <= 1
    /\ (dchan.buf # <<>> => dbpc = "recv")
    /\ (dbpc # "recv" => WalkSent = BatchTaken)
    /\ (DRunning /\ dwpc = "send" /\ dbpc # "recv" => ~ENABLED WalkSend)

C19_Witness ==
    /\ dbpc = "upload"
    /\ dwpc = "send"
    /\ Len(dbatches) = 1
    /\ Len(dreceived) >= 1
    /\ dwi = BatchSize + 1

\* C20 as stated: after a failed upload of a full batch the loop stops, no
\* later batch is uploaded, the walker stays blocked, unopened files are
\* dropped without failing the batch, and the run never ends in a fatal exit.
C20_State ==
    /\ (duploadErr => dbpc = "stopped" /\ dmsg \in {"failed", "failed at the end"})
    /\ (duploadErr /\ ~dfinal => dmsg = "failed" /\ Len(dentries) = BatchSize)
    /\ (dmainpc = "exit0" => dbpc = "stopped")
    /\ (dbpc = "stopped" /\ dmainpc = "wait" => ENABLED DiskMainExit)
    /\ \A i \in 1..Len(dsunk) :
         /\ dsunk[i].keys = SeqSet(dbatches[i]) \ dnoopen
         /\ dsunk[i].n = Len(dbatches[i]) - Cardinality(SeqSet(dbatches[i]) \cap dnoopen)

C20_AsStated ==
    /\ C20_State
    /\ (duploadErr => dmainpc # "fatal")

\* C20 amended: as stated, except that the exit is the normal one unless the
\* walker, still walking, meets a walk error and ends the process with
\* log.Fatalf before main returns; the upload failure itself is never fatal.
C20_UploadFailureStops ==
    /\ []C20_State
    /\ [][dbpc = "stopped" =>
            /\ dbpc' = "stopped"
            /\ dbatches' = dbatches
            /\ dsunk' = dsunk
            /\ dentries' = dentries
            /\ dchan'.buf = dchan.buf
            /\ (dwpc = "send" => dwpc' = "send" /\ dwi' = dwi)]_vars
    /\ [][dmainpc' = "fatal" =>
            /\ dwpc = "walk"
            /\ tree[dwi] = "fail"
            /\ duploadErr' = duploadErr]_vars
    /\ [][dmainpc # "wait" => FALSE]_vars

C20_Witness ==
    /\ duploadErr
    /\ ~dfinal
    /\ dmainpc = "exit0"
    /\ dwpc = "send"
    /\ dwi <= Len(tree)
    /\ dnoopen # {}
====
